---- MODULE Spec2Model ----
(***************************************************************************)
(* Verification model of gnn_tracking:                                     *)
(*   - postprocessing/clusterscanner.py : ClusterHyperParamScanner         *)
(*     (specification Spec)                                                *)
(*   - metrics/cluster_metrics.py       : tracking_metrics                 *)
(*     (specification SpecTM)                                              *)
(* Metric values, labels and hyperparameters are opaque to the scanner;    *)
(* they are kept as terms that record which trial, graph and hits they     *)
(* were computed from.                                                     *)
(***************************************************************************)
EXTENDS Integers, Sequences, FiniteSets, TLC

\* ------------------------------------------------------------------------
\* Bounds
\* ------------------------------------------------------------------------
MaxGraphs == 4
MaxTrials == 2
MaxScans == 2
MaxHits == 6
MaxMismatchHits == 2
MaxTruthLen == 3

\* Sector arrays a graph may carry (one sector id per hit): unassigned hits
\* only, one sector for all hits, and two sectors next to an unassigned hit.
SectorArrays == { <<-1, -1>>, <<0, 0>>, <<-1, 0, 1>> }

\* Value sets of the inputs of tracking_metrics
PIDs == {1, 2}
ClusterIds == {-1, 0, 1}
PtValues == {1, 5}
ThldLists == { <<0>>, <<0, 3, 6>> }
\* How the lengths of the four arrays relate
LengthVariants == {"same", "predicted_short", "pts_short",
                   "reconstructable_short", "reconstructable_long"}

\* Inputs of a scanner constructed without sectors: number of graphs,
\* truth labels, and number of feature columns of a graph
DefaultGraphCounts == {1, 2}
TruthLabels == {0, 1, 2}
FeatureCounts == {1, 2}

\* ------------------------------------------------------------------------
\* Program constants
\* ------------------------------------------------------------------------
\* available.remove(-1): the "no sector" sentinel
NoSector == -1
\* if i_graph >= 2 / if i_labels >= 2
ReportFrom == 2
\* tracking_metrics(..., predicted_count_thld=3)
predicted_count_thld == 3

None == "None"

VARIABLES
    n_graphs,          \* len(self.graphs) = len(self.truth)
    sectors,           \* self.sectors: graph index -> array of sector ids
    cheap_metric,      \* TRUE iff self._cheap_metric is not None
    graph_to_sector,   \* self._graph_to_sector
    study,             \* self._study: [created, stop_flag, n_trials]
    es_calls_since_reset, \* state of self._es: calls since the last reset()
    pc,                \* "idle" | "optimize" | "cheap" | "expensive" | "final"
    scans,             \* number of scan() calls made so far
    remaining,         \* trials left in the running optimize() call
    scan_outcome,      \* outcome of the last scan(): None | "study" | "error"
    trial,             \* number of the current / last trial (-1: none yet)
    trial_state,       \* "NONE" | "RUNNING" | "COMPLETE" | "PRUNED" | "FAIL"
    trial_value,       \* << >> or << value returned by _objective >>
    i_graph,           \* loop index of the running pass (i_graph / i_labels)
    cheap_foms,        \* local cheap_foms
    all_labels,        \* local all_labels
    expensive_foms,    \* local expensive_foms
    sector_used,       \* sectors returned by _get_sector_to_study in this trial
    reports,           \* trial.report calls of this trial: [pass, step, value]
    prune_queries,     \* trial.should_prune calls of this trial
    es_calls,          \* calls of self._es in this trial: [arg, stop]
    prev_trial_state   \* trial_state of the trial before the current one

scanner_vars == << n_graphs, sectors, cheap_metric, graph_to_sector, study,
                   es_calls_since_reset, pc, scans, remaining, scan_outcome,
                   trial, trial_state, trial_value, i_graph, cheap_foms,
                   all_labels, expensive_foms, sector_used, reports,
                   prune_queries, es_calls, prev_trial_state >>

VARIABLES
    tm_pc,             \* "input" | "done": position of the caller
    truth,             \* truth: PID of each hit
    predicted,         \* predicted: cluster label of each hit
    pts,               \* pts: pt of each hit
    reconstructable,   \* reconstructable: flag of each hit
    pt_thlds,          \* pt_thlds
    tie_first,         \* per cluster: the PID value_counts lists first on a tie
    tm_outcome,        \* None | "AssertionError" | "ValueError" | "returned"
    tm_result          \* the returned mapping pt -> TrackingMetrics

tm_vars == << tm_pc, truth, predicted, pts, reconstructable, pt_thlds,
              tie_first, tm_outcome, tm_result >>

VARIABLES
    init_pc,           \* "args" | "constructed" | "done" | "error" | "unused"
    self_truth,        \* self.truth: graph index -> array of truth labels
    n_features,        \* graphs[g].shape = (number of hits of g, n_features)
    self_sectors,      \* self.sectors built by __init__: arrays [shape, data]
    mask_graph,        \* i_graph of the next sector mask to compute
    mask_outcome,      \* None | "ok" | "ValueError" | "IndexError"
    mask_hits          \* hits selected by the last sector mask

ds_vars == << init_pc, self_truth, n_features, self_sectors, mask_graph,
              mask_outcome, mask_hits >>

vars == << scanner_vars, tm_vars, ds_vars >>

\* ------------------------------------------------------------------------
\* ClusterHyperParamScanner
\* ------------------------------------------------------------------------
\* np.unique(array) as a set
unique(ar) == { ar[h] : h \in DOMAIN ar }

\* np.nanmean(foms) of opaque scores
nanmean(foms) == [nanmean_of |-> foms]

\* No call of tracking_metrics is in progress
NoMetricsCall ==
    /\ tm_pc = "done"
    /\ truth = << >>
    /\ predicted = << >>
    /\ pts = << >>
    /\ reconstructable = << >>
    /\ pt_thlds = << >>
    /\ tie_first = << >>
    /\ tm_outcome = None
    /\ tm_result = << >>

\* No scanner without sectors is under construction
NoDefaultSectors ==
    /\ init_pc = "unused"
    /\ self_truth = << >>
    /\ n_features = 0
    /\ self_sectors = << >>
    /\ mask_graph = 0
    /\ mask_outcome = None
    /\ mask_hits = {}

\* __init__ with explicit sectors
Init ==
    /\ n_graphs \in 1 .. MaxGraphs
    /\ sectors \in [0 .. (n_graphs - 1) -> SectorArrays]
    /\ cheap_metric \in BOOLEAN
    /\ graph_to_sector = << >>
    /\ study = [created |-> FALSE, stop_flag |-> FALSE, n_trials |-> 0]
    /\ es_calls_since_reset = 0
    /\ pc = "idle"
    /\ scans = 0
    /\ remaining = 0
    /\ scan_outcome = None
    /\ trial = -1
    /\ trial_state = "NONE"
    /\ trial_value = << >>
    /\ i_graph = 0
    /\ cheap_foms = << >>
    /\ all_labels = << >>
    /\ expensive_foms = << >>
    /\ sector_used = << >>
    /\ reports = << >>
    /\ prune_queries = << >>
    /\ es_calls = << >>
    /\ prev_trial_state = "NONE"
    /\ NoMetricsCall
    /\ NoDefaultSectors

\* Variant of _get_sector_to_study that skips the lookup of the memoized
\* entry and draws again on every call.
get_sector_to_study_no_memo(i) ==
    LET available == unique(sectors[i]) \ {NoSector}
    IN  IF available = {}
        THEN { [raised |-> TRUE, choice |-> NoSector,
                map |-> graph_to_sector] }
        ELSE { [raised |-> FALSE, choice |-> c,
                map |-> (i :> c) @@ graph_to_sector] : c \in available }

\* Variant of _get_sector_to_study that does not remove the sentinel.
get_sector_to_study_keep_sentinel(i) ==
    IF i \in DOMAIN graph_to_sector
    THEN { [raised |-> FALSE, choice |-> graph_to_sector[i],
            map |-> graph_to_sector] }
    ELSE { [raised |-> FALSE, choice |-> c,
            map |-> (i :> c) @@ graph_to_sector] : c \in unique(sectors[i]) }

\* _get_sector_to_study(i): the set of possible outcomes
\* [raised, choice, map] (np.random.choice picks any available sector and
\* raises ValueError on an empty list).
get_sector_to_study(i) ==
    IF i \in DOMAIN graph_to_sector
    THEN { [raised |-> FALSE, choice |-> graph_to_sector[i],
            map |-> graph_to_sector] }
    ELSE LET available == unique(sectors[i]) \ {NoSector}
         IN  IF available = {}
             THEN { [raised |-> TRUE, choice |-> NoSector,
                     map |-> graph_to_sector] }
             ELSE { [raised |-> FALSE, choice |-> c,
                     map |-> (i :> c) @@ graph_to_sector] : c \in available }

\* Variant of the report index without the len(self.graphs) offset.
report_step_no_offset(pass, i) == i

\* step index handed to trial.report in either pass
report_step(pass, i) == IF pass = "cheap" THEN i ELSE i + n_graphs

\* trial.should_prune() under the study's MedianPruner: no pruning while the
\* trial has no reported step, otherwise the optimizer decides.
should_prune(reps) == IF reps = << >> THEN {FALSE} ELSE BOOLEAN

\* scan(**kwargs) -> _scan: es.reset(), lazy study creation, study.optimize
Scan ==
    /\ pc = "idle"
    /\ scans < MaxScans
    /\ \E n_trials \in 1 .. MaxTrials :
         /\ es_calls_since_reset' = 0
         /\ study' = IF ~study.created
                     THEN [created |-> TRUE, stop_flag |-> FALSE,
                           n_trials |-> 0]
                     ELSE [study EXCEPT !.stop_flag = FALSE]
         /\ remaining' = n_trials
    /\ scans' = scans + 1
    /\ scan_outcome' = None
    /\ pc' = "optimize"
    /\ UNCHANGED << n_graphs, sectors, cheap_metric, graph_to_sector, trial,
                    trial_state, trial_value, i_graph, cheap_foms, all_labels,
                    expensive_foms, sector_used, reports, prune_queries,
                    es_calls, prev_trial_state >>

\* study.optimize: the loop ends on the stop flag or the trial budget
ReturnStudy ==
    /\ pc = "optimize"
    /\ study.stop_flag \/ remaining = 0
    /\ pc' = "idle"
    /\ scan_outcome' = "study"
    /\ UNCHANGED << n_graphs, sectors, cheap_metric, graph_to_sector, study,
                    es_calls_since_reset, scans, remaining, trial,
                    trial_state, trial_value, i_graph, cheap_foms, all_labels,
                    expensive_foms, sector_used, reports, prune_queries,
                    es_calls, prev_trial_state >>

\* Variant of the trial start in which the score and label lists outlive
\* the trial (kept on the scanner instead of being locals of _objective).
StartTrial_keep_locals ==
    /\ pc = "optimize"
    /\ ~study.stop_flag
    /\ remaining > 0
    /\ remaining' = remaining - 1
    /\ trial' = study.n_trials
    /\ study' = [study EXCEPT !.n_trials = @ + 1]
    /\ trial_state' = "RUNNING"
    /\ prev_trial_state' = trial_state
    /\ trial_value' = << >>
    /\ i_graph' = 0
    /\ sector_used' = << >>
    /\ reports' = << >>
    /\ prune_queries' = << >>
    /\ es_calls' = << >>
    /\ pc' = "cheap"
    /\ UNCHANGED << n_graphs, sectors, cheap_metric, graph_to_sector,
                    es_calls_since_reset, scans, scan_outcome,
                    cheap_foms, all_labels, expensive_foms >>

\* study.optimize starts the next trial: _objective(trial) up to the loop
StartTrial ==
    /\ pc = "optimize"
    /\ ~study.stop_flag
    /\ remaining > 0
    /\ remaining' = remaining - 1
    /\ trial' = study.n_trials
    /\ study' = [study EXCEPT !.n_trials = @ + 1]
    /\ trial_state' = "RUNNING"
    /\ prev_trial_state' = trial_state
    /\ trial_value' = << >>
    /\ i_graph' = 0
    /\ cheap_foms' = << >>
    /\ all_labels' = << >>
    /\ expensive_foms' = << >>
    /\ sector_used' = << >>
    /\ reports' = << >>
    /\ prune_queries' = << >>
    /\ es_calls' = << >>
    /\ pc' = "cheap"
    /\ UNCHANGED << n_graphs, sectors, cheap_metric, graph_to_sector,
                    es_calls_since_reset, scans, scan_outcome >>

\* One iteration of the first loop of _objective
CheapStep ==
    /\ pc = "cheap"
    /\ \E o \in get_sector_to_study(i_graph) :
         IF o.raised
         THEN \* the error leaves _objective, optimize and scan
              /\ trial_state' = "FAIL"
              /\ scan_outcome' = "error"
              /\ pc' = "idle"
              /\ UNCHANGED << graph_to_sector, i_graph, cheap_foms,
                              all_labels, expensive_foms, sector_used,
                              reports, prune_queries >>
         ELSE LET sector_mask == { h \in DOMAIN sectors[i_graph] :
                                      sectors[i_graph][h] = o.choice }
                  labels == [trial |-> trial, graph |-> i_graph,
                             hits |-> sector_mask]
                  fom == [metric |-> IF cheap_metric THEN "cheap"
                                                     ELSE "expensive",
                          truth_hits |-> sector_mask, labels |-> labels]
                  foms == Append(cheap_foms, fom)
                  reported == i_graph >= ReportFrom
                  reps == IF reported
                          THEN Append(reports,
                                      [pass |-> "cheap",
                                       step |-> report_step("cheap", i_graph),
                                       value |-> nanmean(foms)])
                          ELSE reports
              IN  /\ graph_to_sector' = o.map
                  /\ sector_used' = (i_graph :> o.choice) @@ sector_used
                  /\ all_labels' = Append(all_labels, labels)
                  /\ cheap_foms' = foms
                  /\ reports' = reps
                  /\ prune_queries' = Append(prune_queries,
                         [pass |-> "cheap", index |-> i_graph,
                          reported |-> reported])
                  /\ \E prune \in should_prune(reps) :
                       IF prune
                       THEN \* raise optuna.TrialPruned()
                            /\ trial_state' = "PRUNED"
                            /\ pc' = "optimize"
                            /\ UNCHANGED << i_graph, expensive_foms >>
                       ELSE /\ trial_state' = trial_state
                            /\ IF i_graph + 1 < n_graphs
                               THEN /\ i_graph' = i_graph + 1
                                    /\ pc' = "cheap"
                                    /\ UNCHANGED expensive_foms
                               ELSE IF cheap_metric
                               THEN /\ i_graph' = 0
                                    /\ pc' = "expensive"
                                    /\ expensive_foms' = << >>
                               ELSE /\ i_graph' = 0
                                    /\ pc' = "final"
                                    /\ expensive_foms' = foms
                  /\ UNCHANGED scan_outcome
    /\ UNCHANGED << n_graphs, sectors, cheap_metric, study,
                    es_calls_since_reset, scans, remaining, trial,
                    trial_value, es_calls, prev_trial_state >>

\* One iteration of the second loop of _objective
ExpensiveStep ==
    /\ pc = "expensive"
    /\ LET labels == all_labels[i_graph + 1]
           fom == [metric |-> "expensive",
                   truth_hits |-> DOMAIN sectors[i_graph],
                   labels |-> labels]
           foms == Append(expensive_foms, fom)
           reported == i_graph >= ReportFrom
           reps == IF reported
                   THEN Append(reports,
                               [pass |-> "expensive",
                                step |-> report_step("expensive", i_graph),
                                value |-> nanmean(foms)])
                   ELSE reports
       IN  /\ expensive_foms' = foms
           /\ reports' = reps
           /\ prune_queries' = Append(prune_queries,
                  [pass |-> "expensive", index |-> i_graph,
                   reported |-> reported])
           /\ \E prune \in should_prune(reps) :
                IF prune
                THEN \* raise optuna.TrialPruned()
                     /\ trial_state' = "PRUNED"
                     /\ pc' = "optimize"
                     /\ UNCHANGED i_graph
                ELSE /\ trial_state' = trial_state
                     /\ IF i_graph + 1 < Len(all_labels)
                        THEN /\ i_graph' = i_graph + 1
                             /\ pc' = "expensive"
                        ELSE /\ i_graph' = 0
                             /\ pc' = "final"
    /\ UNCHANGED << n_graphs, sectors, cheap_metric, graph_to_sector, study,
                    es_calls_since_reset, scans, remaining, scan_outcome,
                    trial, trial_value, cheap_foms, all_labels, sector_used,
                    es_calls, prev_trial_state >>

\* Variant of the end of _objective that never calls trial.study.stop().
FinishTrial_no_stop ==
    /\ pc = "final"
    /\ LET global_fom == nanmean(expensive_foms)
       IN  /\ es_calls_since_reset' = es_calls_since_reset + 1
           /\ \E stop \in BOOLEAN :
                es_calls' = Append(es_calls,
                                   [arg |-> global_fom, stop |-> stop])
           /\ trial_value' = << global_fom >>
    /\ trial_state' = "COMPLETE"
    /\ pc' = "optimize"
    /\ UNCHANGED << n_graphs, sectors, cheap_metric, graph_to_sector, scans,
                    remaining, scan_outcome, trial, i_graph, cheap_foms,
                    all_labels, expensive_foms, sector_used, reports,
                    prune_queries, prev_trial_state, study >>

\* End of _objective: global_fom, early stopping, return
FinishTrial ==
    /\ pc = "final"
    /\ LET global_fom == nanmean(expensive_foms)
       IN  /\ es_calls_since_reset' = es_calls_since_reset + 1
           /\ \E stop \in BOOLEAN :
                /\ es_calls' = Append(es_calls,
                                      [arg |-> global_fom, stop |-> stop])
                \* trial.study.stop()
                /\ study' = IF stop THEN [study EXCEPT !.stop_flag = TRUE]
                                    ELSE study
           /\ trial_value' = << global_fom >>
    /\ trial_state' = "COMPLETE"
    /\ pc' = "optimize"
    /\ UNCHANGED << n_graphs, sectors, cheap_metric, graph_to_sector, scans,
                    remaining, scan_outcome, trial, i_graph, cheap_foms,
                    all_labels, expensive_foms, sector_used, reports,
                    prune_queries, prev_trial_state >>

ScannerNext ==
    \/ Scan
    \/ StartTrial
    \/ CheapStep
    \/ ExpensiveStep
    \/ FinishTrial
    \/ ReturnStudy

Next == ScannerNext /\ UNCHANGED << tm_vars, ds_vars >>

Spec == Init /\ [][Next]_vars

\* ------------------------------------------------------------------------
\* tracking_metrics
\* ------------------------------------------------------------------------
\* float("nan"): the undefined ratio
NaN == [num |-> 0, den |-> 0]

\* zero_division_gives_nan(a, b): the ratio a / b kept as a fraction
zero_division_gives_nan(a, b) ==
    IF b = 0 THEN NaN ELSE [num |-> a, den |-> b]

\* Variant of the record for empty input with 0.0 in place of nan.
tracking_metrics_zero_results ==
    [n_particles |-> 0, n_cleaned_clusters |-> 0,
     perfect |-> [num |-> 0, den |-> 1], lhc |-> [num |-> 0, den |-> 1],
     double_majority |-> [num |-> 0, den |-> 1],
     fake_perfect |-> [num |-> 0, den |-> 1],
     fake_lhc |-> [num |-> 0, den |-> 1],
     fake_double_majority |-> [num |-> 0, den |-> 1]]

tracking_metrics_nan_results ==
    [n_particles |-> 0, n_cleaned_clusters |-> 0,
     perfect |-> NaN, lhc |-> NaN, double_majority |-> NaN,
     fake_perfect |-> NaN, fake_lhc |-> NaN, fake_double_majority |-> NaN]

Hits == DOMAIN truth

\* unique_predicted: the distinct cluster labels
unique_predicted == unique(predicted)

\* pid_counts: hits of truth id `id` in cluster c (df.value_counts)
pid_counts(c, id) ==
    Cardinality({ h \in Hits : predicted[h] = c /\ truth[h] = id })

\* c_sizes / predicted_counts: number of hits of cluster c
c_sizes(c) == Cardinality({ h \in Hits : predicted[h] = c })

\* c_maj_hits: hits of the most popular PID of cluster c
c_maj_hits(c) ==
    CHOOSE m \in 0 .. Len(truth) :
        /\ \E id \in unique(truth) : pid_counts(c, id) = m
        /\ \A id \in unique(truth) : pid_counts(c, id) <= m

\* the PIDs with the highest count in cluster c
most_popular(c) ==
    { id \in unique(truth) : pid_counts(c, id) = c_maj_hits(c) }

\* c_maj_pids: first row of the count-sorted table of cluster c; the order
\* of rows with equal counts is not fixed by the sort, tie_first[c] says
\* which of them comes first.
c_maj_pids(c) ==
    IF tie_first[c] \in most_popular(c)
    THEN tie_first[c]
    ELSE CHOOSE id \in most_popular(c) : \A o \in most_popular(c) : id <= o

\* Variant of the validity test with a strict size comparison.
c_valid_cluster_strict(c) == c >= 0 /\ c_sizes(c) > predicted_count_thld

\* c_valid_cluster: non-negative label and enough hits
c_valid_cluster(c) == c >= 0 /\ c_sizes(c) >= predicted_count_thld

\* groupby("id").first(): the first hit of a PID
first_hit(id) ==
    CHOOSE h \in Hits :
        /\ truth[h] = id
        /\ \A o \in Hits : truth[o] = id => h <= o

pid_to_pt(id) == pts[first_hit(id)]
pid_to_r(id) == reconstructable[first_hit(id)]
\* pid_to_count = Counter(truth)
pid_to_count(id) == Cardinality({ h \in Hits : truth[h] = id })

\* The per-cluster series computed before the threshold loop, one row per
\* cluster label: c_maj_pids, c_maj_hits, c_sizes, c_valid_cluster,
\* c_maj_pts, c_maj_reconstructable and maj_hits.
cluster_series ==
    [c \in unique_predicted |->
        LET id == c_maj_pids(c)
        IN  [c_maj_pids |-> id,
             c_maj_hits |-> c_maj_hits(c),
             c_sizes |-> c_sizes(c),
             c_valid_cluster |-> c_valid_cluster(c),
             c_maj_pts |-> pid_to_pt(id),
             c_maj_reconstructable |-> pid_to_r(id),
             maj_hits |-> pid_to_count(id)]]

\* c_mask = (c_maj_pts >= pt) & c_maj_reconstructable
c_mask(cs, c, pt) == cs[c].c_maj_pts >= pt /\ cs[c].c_maj_reconstructable

\* c_maj_frac > 0.99, maj_frac > 0.5, c_maj_frac > 0.5, c_maj_frac > 0.75
\* on the integer counts
perfect_match(cs, pt) ==
    Cardinality({ c \in DOMAIN cs :
        /\ c_mask(cs, c, pt)
        /\ cs[c].maj_hits = cs[c].c_maj_hits
        /\ 100 * cs[c].c_maj_hits > 99 * cs[c].c_sizes
        /\ cs[c].c_valid_cluster })

double_majority(cs, pt) ==
    Cardinality({ c \in DOMAIN cs :
        /\ c_mask(cs, c, pt)
        /\ 2 * cs[c].c_maj_hits > cs[c].maj_hits
        /\ 2 * cs[c].c_maj_hits > cs[c].c_sizes
        /\ cs[c].c_valid_cluster })

lhc_match(cs, pt) ==
    Cardinality({ c \in DOMAIN cs :
        /\ c_mask(cs, c, pt)
        /\ 4 * cs[c].c_maj_hits > 3 * cs[c].c_sizes
        /\ cs[c].c_valid_cluster })

\* Variant of the particle count with the pt comparison reversed.
n_particles_reversed(pt) ==
    Cardinality({ truth[h] : h \in { k \in Hits : pts[k] <= pt } })

\* n_particles = len(np.unique(truth[pts >= pt]))
n_particles(pt) ==
    Cardinality({ truth[h] : h \in { k \in Hits : pts[k] >= pt } })

\* n_clusters = len(unique_predicted[c_pt_mask & c_valid_cluster])
n_clusters(cs, pt) ==
    Cardinality({ c \in DOMAIN cs :
        cs[c].c_maj_pts >= pt /\ cs[c].c_valid_cluster })

\* the TrackingMetrics record r of one threshold
metrics_at(cs, pt) ==
    LET pm == perfect_match(cs, pt)
        dm == double_majority(cs, pt)
        lhc == lhc_match(cs, pt)
        np == n_particles(pt)
        nc == n_clusters(cs, pt)
        fake_pm == nc - pm
        fake_dm == nc - dm
        fake_lhc == nc - lhc
    IN  [n_particles |-> np,
         n_cleaned_clusters |-> nc,
         perfect |-> zero_division_gives_nan(pm, np),
         double_majority |-> zero_division_gives_nan(dm, np),
         lhc |-> zero_division_gives_nan(lhc, nc),
         fake_perfect |-> zero_division_gives_nan(fake_pm, np),
         fake_double_majority |-> zero_division_gives_nan(fake_dm, np),
         fake_lhc |-> zero_division_gives_nan(fake_lhc, nc)]

\* tracking_metrics(...): [outcome, result]
tracking_metrics ==
    IF ~(Len(predicted) = Len(truth) /\ Len(truth) = Len(pts))
    THEN [outcome |-> "AssertionError", result |-> << >>]
    ELSE IF Len(truth) = 0
    THEN [outcome |-> "returned",
          result |-> [pt \in unique(pt_thlds) |->
                         tracking_metrics_nan_results]]
    ELSE IF Len(reconstructable) # Len(truth)
    THEN \* pd.DataFrame: "All arrays must be of the same length"
         [outcome |-> "ValueError", result |-> << >>]
    ELSE LET cs == cluster_series
         IN  [outcome |-> "returned",
              result |-> [pt \in unique(pt_thlds) |-> metrics_at(cs, pt)]]

\* Hit tables (truth id, cluster label) with n rows, in non-decreasing
\* order of (truth id, cluster label): the computation only uses sets of
\* hits and the first hit of a particle, whose pt and flag are those of
\* every hit of the particle here.
HitTypes == PIDs \X ClusterIds
HitRank(t) == 10 * t[1] + t[2]
HitTables(n) ==
    { s \in [1 .. n -> HitTypes] :
        \A k \in 1 .. (n - 1) : HitRank(s[k]) <= HitRank(s[k + 1]) }

DropLast(q) == IF q = << >> THEN q ELSE SubSeq(q, 1, Len(q) - 1)

\* A caller holds four arrays, consistent per particle, whose lengths may
\* disagree by one, and a list of thresholds.
InitTM ==
    /\ \E n \in 0 .. MaxHits :
         \E tab \in HitTables(n) :
           \E pt_of \in [PIDs -> PtValues], r_of \in [PIDs -> BOOLEAN],
              variant \in IF n <= MaxMismatchHits THEN LengthVariants
                                                 ELSE {"same"} :
             LET t == [h \in 1 .. n |-> tab[h][1]]
                 c == [h \in 1 .. n |-> tab[h][2]]
                 p == [h \in 1 .. n |-> pt_of[t[h]]]
                 r == [h \in 1 .. n |-> r_of[t[h]]]
             IN  /\ truth = t
                 /\ predicted = IF variant = "predicted_short"
                                THEN DropLast(c) ELSE c
                 /\ pts = IF variant = "pts_short" THEN DropLast(p) ELSE p
                 /\ reconstructable =
                        IF variant = "reconstructable_short" THEN DropLast(r)
                        ELSE IF variant = "reconstructable_long"
                        THEN Append(r, TRUE)
                        ELSE r
    /\ pt_thlds \in ThldLists
    /\ tie_first \in [ClusterIds -> PIDs]
    /\ \A c \in ClusterIds :
         \/ /\ Len(predicted) = Len(truth)
            /\ c \in unique_predicted
            /\ Cardinality(most_popular(c)) > 1
         \/ tie_first[c] = 1
    /\ tm_pc = "input"
    /\ tm_outcome = None
    /\ tm_result = << >>
    /\ n_graphs = 1
    /\ sectors = (0 :> <<0, 1>>)
    /\ cheap_metric = FALSE
    /\ graph_to_sector = << >>
    /\ study = [created |-> FALSE, stop_flag |-> FALSE, n_trials |-> 0]
    /\ es_calls_since_reset = 0
    /\ pc = "idle"
    /\ scans = 0
    /\ remaining = 0
    /\ scan_outcome = None
    /\ trial = -1
    /\ trial_state = "NONE"
    /\ trial_value = << >>
    /\ i_graph = 0
    /\ cheap_foms = << >>
    /\ all_labels = << >>
    /\ expensive_foms = << >>
    /\ sector_used = << >>
    /\ reports = << >>
    /\ prune_queries = << >>
    /\ es_calls = << >>
    /\ prev_trial_state = "NONE"
    /\ NoDefaultSectors

\* The call tracking_metrics(truth=..., predicted=..., pts=...,
\* reconstructable=..., pt_thlds=...)
TrackingMetricsCall ==
    /\ tm_pc = "input"
    /\ LET ret == tracking_metrics
       IN  /\ tm_outcome' = ret.outcome
           /\ tm_result' = ret.result
    /\ tm_pc' = "done"
    /\ UNCHANGED << truth, predicted, pts, reconstructable, pt_thlds,
                    tie_first >>

NextTM == TrackingMetricsCall /\ UNCHANGED << scanner_vars, ds_vars >>

SpecTM == InitTM /\ [][NextTM]_vars

\* ------------------------------------------------------------------------
\* ClusterHyperParamScanner constructed with sectors=None
\* ------------------------------------------------------------------------
RECURSIVE product(_)
\* number of entries of an array of the given shape
product(shape) ==
    IF shape = << >> THEN 1 ELSE Head(shape) * product(Tail(shape))

\* np.ones(t, dtype=int): t is taken as the shape of the new array
np_ones(t) == [shape |-> t, data |-> [k \in 1 .. product(t) |-> 1]]

\* A caller constructs a scanner from truth arrays and no sectors
InitDefault ==
    /\ \E n \in DefaultGraphCounts :
         self_truth \in [0 .. (n - 1) ->
             UNION { [1 .. len -> TruthLabels] : len \in 1 .. MaxTruthLen }]
    /\ n_features \in FeatureCounts
    /\ init_pc = "args"
    /\ self_sectors = << >>
    /\ mask_graph = 0
    /\ mask_outcome = None
    /\ mask_hits = {}
    /\ NoMetricsCall
    /\ n_graphs = 1
    /\ sectors = (0 :> <<0, 0>>)
    /\ cheap_metric = FALSE
    /\ graph_to_sector = << >>
    /\ study = [created |-> FALSE, stop_flag |-> FALSE, n_trials |-> 0]
    /\ es_calls_since_reset = 0
    /\ pc = "idle"
    /\ scans = 0
    /\ remaining = 0
    /\ scan_outcome = None
    /\ trial = -1
    /\ trial_state = "NONE"
    /\ trial_value = << >>
    /\ i_graph = 0
    /\ cheap_foms = << >>
    /\ all_labels = << >>
    /\ expensive_foms = << >>
    /\ sector_used = << >>
    /\ reports = << >>
    /\ prune_queries = << >>
    /\ es_calls = << >>
    /\ prev_trial_state = "NONE"

\* __init__(..., sectors=None)
ConstructDefault ==
    /\ init_pc = "args"
    /\ self_sectors' = [g \in DOMAIN self_truth |-> np_ones(self_truth[g])]
    /\ init_pc' = "constructed"
    /\ UNCHANGED << self_truth, n_features, mask_graph, mask_outcome,
                    mask_hits >>

\* a[mask] for an array of shape a_shape and a boolean mask of shape
\* m_shape: the mask must match the leading dimensions of the array
bool_index_ok(a_shape, m_shape) ==
    /\ Len(m_shape) <= Len(a_shape)
    /\ \A k \in DOMAIN m_shape : m_shape[k] = a_shape[k]

\* Outcome [outcome, hits] of lines 123-126 of _objective for graph g:
\* sector choice, sector_mask, graph[sector_mask], truth[sector_mask]
sector_mask_step(g) ==
    LET sec == self_sectors[g]
        available == unique(sec.data) \ {NoSector}
        n_hits == Len(self_truth[g])
    IN  IF available = {}
        THEN { [outcome |-> "ValueError", hits |-> {}] }
        ELSE { IF /\ bool_index_ok(<< n_hits, n_features >>, sec.shape)
                  /\ bool_index_ok(<< n_hits >>, sec.shape)
               THEN [outcome |-> "ok",
                     hits |-> { h \in DOMAIN sec.data : sec.data[h] = c }]
               ELSE [outcome |-> "IndexError", hits |-> {}]
               : c \in available }

\* One iteration of the first loop of _objective up to truth[sector_mask]
MaskDefault ==
    /\ init_pc = "constructed"
    /\ \E o \in sector_mask_step(mask_graph) :
         /\ mask_outcome' = o.outcome
         /\ mask_hits' = o.hits
         /\ IF o.outcome # "ok"
            THEN /\ init_pc' = "error"
                 /\ UNCHANGED mask_graph
            ELSE IF mask_graph + 1 \in DOMAIN self_truth
            THEN /\ init_pc' = "constructed"
                 /\ mask_graph' = mask_graph + 1
            ELSE /\ init_pc' = "done"
                 /\ UNCHANGED mask_graph
    /\ UNCHANGED << self_truth, n_features, self_sectors >>

NextDefault ==
    /\ ConstructDefault \/ MaskDefault
    /\ UNCHANGED << scanner_vars, tm_vars >>

SpecDefault == InitDefault /\ [][NextDefault]_vars

\* ------------------------------------------------------------------------
\* Properties of ClusterHyperParamScanner (checked under Spec)
\* ------------------------------------------------------------------------
SeqRange(q) == { q[k] : k \in DOMAIN q }

\* C1: an entry of _graph_to_sector, once written, is never changed or
\* removed, and every sector a trial obtains for graph g is the memoized
\* entry for g -- in all trials of a scan call and in later scan calls.
C1_SectorStable ==
    [][ /\ \A g \in DOMAIN graph_to_sector :
             /\ g \in DOMAIN graph_to_sector'
             /\ graph_to_sector'[g] = graph_to_sector[g]
        /\ \A g \in DOMAIN sector_used' :
             /\ g \in DOMAIN graph_to_sector'
             /\ sector_used'[g] = graph_to_sector'[g] ]_vars

\* A later trial of a second scan call has obtained the sector of a graph
\* whose sector array offers more than one eligible sector.
C1_Witness ==
    /\ scans = 2
    /\ trial >= 2
    /\ \E g \in DOMAIN sector_used :
         Cardinality(unique(sectors[g]) \ {NoSector}) > 1

\* C2: a pruned trial returns no objective and the early-stopping policy is
\* not consulted for it; the scores and labels held by a running or completed
\* trial were all produced by that trial, and its objective is the mean of
\* exactly those scores.
C2_PrunedTrialIsolated ==
    /\ trial_state = "PRUNED" =>
         /\ trial_value = << >>
         /\ es_calls = << >>
    /\ trial_state \in {"RUNNING", "COMPLETE"} =>
         /\ \A f \in SeqRange(cheap_foms) \cup SeqRange(expensive_foms) :
              f.labels.trial = trial
         /\ \A l \in SeqRange(all_labels) : l.trial = trial
    /\ trial_state = "COMPLETE" =>
         /\ Len(trial_value) = 1
         /\ \A f \in SeqRange(trial_value[1].nanmean_of) :
              f.labels.trial = trial
         /\ Len(trial_value[1].nanmean_of) = n_graphs

\* A trial completes with an objective right after a trial that was pruned
\* with scores collected.
C2_Witness ==
    /\ trial_state = "COMPLETE"
    /\ trial >= 1
    /\ prev_trial_state = "PRUNED"
    /\ Len(trial_value) = 1

\* C6 (as stated): should_prune is queried, and a trial is pruned, only at
\* loop indices >= 2, where a running mean has just been reported.
C6_PruneOnlyAfterReport ==
    /\ \A q \in SeqRange(prune_queries) :
         /\ q.index >= ReportFrom
         /\ q.reported
    /\ trial_state = "PRUNED" => i_graph >= ReportFrom

\* C7: the step indices reported in one trial are strictly increasing;
\* cheap-pass reports use 2..N-1 and expensive-pass reports N+2..2N-1.
C7_ReportStepsIncreasing ==
    /\ \A j, k \in DOMAIN reports :
         j < k => reports[j].step < reports[k].step
    /\ \A k \in DOMAIN reports :
         /\ reports[k].pass = "cheap" =>
              reports[k].step \in ReportFrom .. (n_graphs - 1)
         /\ reports[k].pass = "expensive" =>
              reports[k].step \in
                  (n_graphs + ReportFrom) .. (2 * n_graphs - 1)

\* A trial has reported in both passes, more than once in the second.
C7_Witness ==
    /\ \E j, k \in DOMAIN reports :
         /\ j < k
         /\ reports[j].pass = "cheap"
         /\ reports[k].pass = "expensive"
    /\ Cardinality({ k \in DOMAIN reports :
                       reports[k].pass = "expensive" }) >= 2

\* C8: the early-stopping policy is consulted once per completed trial, with
\* the final objective and only when both passes are over; on a stop signal
\* the study's stop flag is set, the trial still returns its objective, and
\* no further trial starts in the same scan call.
C8_EarlyStopping ==
    [][ /\ pc = "final" =>
             /\ trial_state' = "COMPLETE"
             /\ Len(es_calls') = 1
             /\ trial_value' = << nanmean(expensive_foms) >>
             /\ es_calls'[1].arg = trial_value'[1]
             /\ es_calls'[1].stop => study'.stop_flag
        /\ trial_state' = "RUNNING" => es_calls' = << >>
        /\ trial_state' = "COMPLETE" => Len(es_calls') = 1
        /\ (study.stop_flag /\ scans' = scans) =>
             /\ study'.n_trials = study.n_trials
             /\ trial' = trial ]_vars

\* A scan call has returned after a stop signal with trial budget left.
C8_Witness ==
    /\ pc = "idle"
    /\ scan_outcome = "study"
    /\ trial_state = "COMPLETE"
    /\ es_calls[1].stop
    /\ study.stop_flag
    /\ remaining > 0

\* C9: every memoized sector occurs in the graph's sector array and is not
\* the sentinel; when the array holds only the sentinel the call raises and
\* the memo is left unchanged.
C9_SectorEligible ==
    [][ /\ \A g \in DOMAIN graph_to_sector' :
             /\ graph_to_sector'[g] \in unique(sectors[g])
             /\ graph_to_sector'[g] # NoSector
        /\ (pc = "cheap" /\ unique(sectors[i_graph]) \subseteq {NoSector}) =>
             /\ trial_state' = "FAIL"
             /\ scan_outcome' = "error"
             /\ graph_to_sector' = graph_to_sector
             /\ i_graph \notin DOMAIN graph_to_sector' ]_vars

\* A trial failed at a sentinel-only graph after earlier graphs were
\* memoized.
C9_Witness ==
    /\ trial_state = "FAIL"
    /\ unique(sectors[i_graph]) = {NoSector}
    /\ DOMAIN graph_to_sector # {}
    /\ i_graph \notin DOMAIN graph_to_sector

\* ------------------------------------------------------------------------
\* Properties of tracking_metrics (checked under SpecTM)
\* ------------------------------------------------------------------------
AllSameLength ==
    /\ Len(truth) = Len(predicted)
    /\ Len(truth) = Len(pts)
    /\ Len(truth) = Len(reconstructable)

\* a ratio is undefined or lies in [0, 1]
InUnitInterval(r) == r = NaN \/ (r.den > 0 /\ 0 <= r.num /\ r.num <= r.den)

\* a defined ratio equals a / b
RatioIs(r, a, b) == r.den # 0 /\ r.num * b = a * r.den

\* C3 (as stated): for equal-length, per-particle consistent inputs each of
\* the six ratios is undefined or lies in [0, 1].
C3_RatiosInUnitInterval ==
    (tm_pc = "done" /\ AllSameLength /\ tm_outcome = "returned") =>
        \A pt \in DOMAIN tm_result :
            /\ InUnitInterval(tm_result[pt].perfect)
            /\ InUnitInterval(tm_result[pt].double_majority)
            /\ InUnitInterval(tm_result[pt].lhc)
            /\ InUnitInterval(tm_result[pt].fake_perfect)
            /\ InUnitInterval(tm_result[pt].fake_double_majority)
            /\ InUnitInterval(tm_result[pt].fake_lhc)

\* The call of the worked example: two particles, clusters of 3 and 2 hits
C4_Scenario ==
    /\ truth = <<1, 1, 1, 2, 2>>
    /\ predicted = <<0, 0, 0, 1, 1>>
    /\ pts = <<5, 5, 5, 5, 5>>
    /\ reconstructable = <<TRUE, TRUE, TRUE, TRUE, TRUE>>
    /\ pt_thlds = <<0>>

\* C4 (as stated): in the worked example both clusters are perfect matches:
\* n_particles = 2, n_cleaned_clusters = 2, perfect = double_majority = lhc
\* = 1.0 and the three fake ratios are 0.0.
C4_BothClustersPerfect ==
    (C4_Scenario /\ tm_pc = "done") =>
        /\ tm_outcome = "returned"
        /\ DOMAIN tm_result = {0}
        /\ tm_result[0].n_particles = 2
        /\ tm_result[0].n_cleaned_clusters = 2
        /\ tm_result[0].perfect = [num |-> 2, den |-> 2]
        /\ RatioIs(tm_result[0].double_majority, 1, 1)
        /\ RatioIs(tm_result[0].lhc, 1, 1)
        /\ RatioIs(tm_result[0].fake_perfect, 0, 1)
        /\ RatioIs(tm_result[0].fake_double_majority, 0, 1)
        /\ RatioIs(tm_result[0].fake_lhc, 0, 1)

\* C4 (amended): in the worked example only cluster 0 (3 hits) is kept and
\* is a perfect match, cluster 1 (2 hits) is below the minimum cluster size:
\* n_particles = 2, n_cleaned_clusters = 1, perfect = double_majority = 0.5,
\* lhc = 1.0 and the three fake ratios are 0.0.
C4_OnlyLargeClusterCounts ==
    (C4_Scenario /\ tm_pc = "done") =>
        /\ tm_outcome = "returned"
        /\ DOMAIN tm_result = {0}
        /\ tm_result[0].n_particles = 2
        /\ tm_result[0].n_cleaned_clusters = 1
        /\ tm_result[0].perfect = [num |-> 1, den |-> 2]
        /\ RatioIs(tm_result[0].double_majority, 1, 2)
        /\ RatioIs(tm_result[0].lhc, 1, 1)
        /\ RatioIs(tm_result[0].fake_perfect, 0, 1)
        /\ RatioIs(tm_result[0].fake_double_majority, 0, 1)
        /\ RatioIs(tm_result[0].fake_lhc, 0, 1)

\* The worked example has been evaluated.
C4_Witness ==
    /\ C4_Scenario
    /\ tm_pc = "done"
    /\ tm_outcome = "returned"
    /\ tm_result[0].n_particles = 2

\* C5 (as stated): a call whose four arrays do not all have the same length
\* ends with an error and returns no mapping.
C5_MismatchFails ==
    (tm_pc = "done" /\ ~AllSameLength) =>
        /\ tm_outcome \in {"AssertionError", "ValueError"}
        /\ tm_result = << >>

\* C10: within one call, a higher threshold never has more particles nor
\* more cleaned clusters than a lower one.
C10_CountsMonotone ==
    (tm_pc = "done" /\ tm_outcome = "returned") =>
        \A p1, p2 \in DOMAIN tm_result :
            p1 <= p2 =>
                /\ tm_result[p2].n_particles <= tm_result[p1].n_particles
                /\ tm_result[p2].n_cleaned_clusters
                       <= tm_result[p1].n_cleaned_clusters

\* A call in which both counts drop, but not to zero, at a higher threshold.
C10_Witness ==
    /\ tm_pc = "done"
    /\ tm_outcome = "returned"
    /\ \E p1, p2 \in DOMAIN tm_result :
         /\ p1 < p2
         /\ tm_result[p2].n_particles < tm_result[p1].n_particles
         /\ tm_result[p2].n_cleaned_clusters
                < tm_result[p1].n_cleaned_clusters
         /\ tm_result[p2].n_cleaned_clusters > 0

\* C11: when all four arrays are empty the call returns, for exactly the
\* requested thresholds, the record with both counts 0 and all six ratios
\* undefined, and raises nothing.
C11_EmptyInput ==
    (/\ tm_pc = "done"
     /\ Len(truth) = 0
     /\ Len(predicted) = 0
     /\ Len(pts) = 0
     /\ Len(reconstructable) = 0) =>
        /\ tm_outcome = "returned"
        /\ DOMAIN tm_result = unique(pt_thlds)
        /\ \A pt \in DOMAIN tm_result :
             /\ tm_result[pt].n_particles = 0
             /\ tm_result[pt].n_cleaned_clusters = 0
             /\ tm_result[pt].perfect = NaN
             /\ tm_result[pt].double_majority = NaN
             /\ tm_result[pt].lhc = NaN
             /\ tm_result[pt].fake_perfect = NaN
             /\ tm_result[pt].fake_double_majority = NaN
             /\ tm_result[pt].fake_lhc = NaN

\* A call with empty arrays and several thresholds has returned.
C11_Witness ==
    /\ tm_pc = "done"
    /\ truth = << >>
    /\ reconstructable = << >>
    /\ Len(pt_thlds) = 3
    /\ tm_outcome = "returned"
    /\ Cardinality(DOMAIN tm_result) = 3

\* the hits of graph g that lie in the memoized sector of g
SectorHits(g) ==
    { h \in DOMAIN sectors[g] : sectors[g][h] = graph_to_sector[g] }

\* C13 (as stated): in every metric invocation of either pass the truth
\* labels and the predicted labels cover the same hits, those of the graph's
\* memoized sector.
C13_MetricInputsAligned ==
    \A f \in SeqRange(cheap_foms) \cup SeqRange(expensive_foms) :
        /\ f.truth_hits = f.labels.hits
        /\ f.labels.hits = SectorHits(f.labels.graph)

\* C12 (as stated): a scanner constructed without sectors gives every graph
\* a sector array with one entry per hit, all entries equal, and the sector
\* mask of a trial selects all hits of the graph.
C12_DefaultSectorCoversGraph ==
    /\ init_pc \in {"constructed", "done", "error"} =>
         \A g \in DOMAIN self_truth :
             /\ self_sectors[g].shape = << Len(self_truth[g]) >>
             /\ Cardinality(unique(self_sectors[g].data)) = 1
    /\ (init_pc \in {"constructed", "done", "error"}
            /\ mask_outcome # None) =>
         /\ mask_outcome = "ok"
         /\ LET masked == IF init_pc = "constructed" THEN mask_graph - 1
                                                     ELSE mask_graph
            IN  mask_hits = DOMAIN self_truth[masked]

====
